---- MODULE Spec2Model ----
(***************************************************************************)
(* Generic OnOff server/client and self-provisioning of the mesh node in   *)
(* src/src/main.c, with the LED hook of src/src/board.c.  All callbacks    *)
(* run serialised on one work queue, so every handler is one atomic step.  *)
(***************************************************************************)
EXTENDS Integers, Naturals, Sequences, FiniteSets, TLC

VARIABLES onoff, work, led, provisioned, keys, cli_tid, ev, out

vars == <<onoff, work, led, provisioned, keys, cli_tid, ev, out>>

(* ---------------------------- bounds ---------------------------------- *)
MaxTid == 1
MaxAddr == 1
MaxCliTid == 1

(* ------------------------ program constants --------------------------- *)
SYS_FOREVER_MS == -1
BT_MESH_KEY_UNUSED == 65535
ENOENT == 2

time_res == <<100, 1000, 10000, 600000>>

(* ------------------------- input domains ------------------------------ *)
TidBytes == 0..MaxTid
SrcAddrs == 1..MaxAddr
\* optional Set fields <<transition-time byte, delay byte>>: absent, cut
\* short after a 100 ms transition time, 0 ms after 5 ms, indefinite (0x3F)
\* after 5 ms
SetOptions == {<<>>, <<1>>, <<0, 1>>, <<63, 1>>}
\* bytes found behind the end of a payload when a handler reads too far
GarbageBytes == {0, 1}
\* first two bytes of dev_uuid: hwinfo identity or the 0xdd 0xdd fallback
DevUuid01 == <<221, 221>>

SetPayloads ==
    {<<v, t>> \o o : v \in {0, 1}, t \in TidBytes, o \in SetOptions}

(* --------------------------- helpers ---------------------------------- *)
b2i(b) == IF b THEN 1 ELSE 0

\* A 32-bit word is held as its two's-complement value in
\* -2^31 .. 2^31-1: a uint32_t above INT32_MAX is the negative number with
\* the same bits (0xFFFFFFFF is -1), so uint32_t <-> int32_t conversions
\* keep the value and only the arithmetic differs.
Lo16(x) == x % 65536

Hi16(x) == (x \div 65536) % 65536

Word32(hi, lo) ==
    IF hi >= 32768 THEN (hi - 65536) * 65536 + lo ELSE hi * 65536 + lo

\* uint32_t addition, wrapping at 2^32
Add32(a, b) ==
    LET lo == Lo16(a) + Lo16(b)
        hi == (Hi16(a) + Hi16(b) + (lo \div 65536)) % 65536
    IN Word32(hi, lo % 65536)

\* uint32_t a < b
ULess32(a, b) == IF (a < 0) = (b < 0) THEN a < b ELSE b < 0

\* value read by net_buf_simple_pull_u8 at 1-based position i of a payload;
\* behind the end of the payload the byte is whatever memory holds (g)
ByteAt(buf, i, g) == IF i <= Len(buf) THEN buf[i] ELSE g

(* ---------------------- transition time codec ------------------------- *)
\* decoder that takes the sentinel for the whole byte 0x3F only
model_time_decode_WholeByte(val) ==
    LET resolution == (val \div 64) % 4
        steps == val % 64
    IN IF val = 63 THEN SYS_FOREVER_MS
       ELSE steps * time_res[resolution + 1]

model_time_decode(val) ==
    LET resolution == (val \div 64) % 4
        steps == val % 64
    IN IF steps = 63 THEN SYS_FOREVER_MS
       ELSE steps * time_res[resolution + 1]

RECURSIVE EncodeFrom(_, _)
EncodeFrom(ms, i) ==
    IF i > Len(time_res) THEN 63
    ELSE IF ~ULess32(ms, 63 * time_res[i]) THEN EncodeFrom(ms, i + 1)
    ELSE LET steps == (ms + time_res[i] - 1) \div time_res[i]
         IN (steps % 256) + ((i - 1) * 64)

\* encoder that always starts at the 1 s resolution
model_time_encode_SkipsFirst(ms) ==
    IF ms = SYS_FOREVER_MS THEN 63 ELSE EncodeFrom(ms, 2)

model_time_encode(ms) ==
    IF ms = SYS_FOREVER_MS THEN 63 ELSE EncodeFrom(ms, 1)

(* ------------------------ delayable work ------------------------------ *)
\* work.remaining is k_ticks_to_ms_floor32(k_work_delayable_remaining_get()):
\* whole milliseconds left; a pending item with 0 left is due or queued.
WorkIdle == [pending |-> FALSE, remaining |-> 0]

\* k_work_schedule semantics: a pending item keeps its deadline
k_work_schedule_keep(w, ms) ==
    IF w.pending THEN w ELSE [pending |-> TRUE, remaining |-> ms]

\* k_work_reschedule: the new deadline replaces whatever was pending
k_work_reschedule(w, ms) == [pending |-> TRUE, remaining |-> ms]

(* -------------------------- status reply ------------------------------ *)
StatusRemaining(o, w) == Add32(w.remaining, o.transition_time)

StatusPayload(o, w) ==
    LET remaining == StatusRemaining(o, w)
    IN IF remaining # 0
       THEN <<b2i(~o.val), b2i(o.val), model_time_encode(remaining)>>
       ELSE <<b2i(o.val)>>

onoff_status_send(o, w) == [op |-> "status", payload |-> StatusPayload(o, w)]

(* ------------------------- Set decoding ------------------------------- *)
\* fields pulled from a Set / Set-Unacknowledged payload
SetFields(buf, g) ==
    [val   |-> buf[1],
     tid   |-> buf[2],
     trans |-> IF Len(buf) > 2 THEN model_time_decode(ByteAt(buf, 3, g)) ELSE 0,
     delay |-> IF Len(buf) > 2 THEN ByteAt(buf, 4, g) * 5 ELSE 0]

\* retransmission test with the source comparison inverted
IsRetransmission_WrongSrc(o, f, addr) == f.tid = o.tid /\ addr # o.src

IsRetransmission(o, f, addr) == f.tid = o.tid /\ addr = o.src

\* no-change test inverted
IsNoChange_Inverted(o, f) == f.val # b2i(o.val)

IsNoChange(o, f) == f.val = b2i(o.val)

Accepted(o, f, addr) == ~IsRetransmission(o, f, addr) /\ ~IsNoChange(o, f)

\* the stored state after an accepted Set
SetStore(o, f, addr) ==
    [val |-> f.val # 0, tid |-> f.tid, src |-> addr,
     transition_time |-> f.trans]

\* gen_onoff_set_unack as a function of the engine state: the new
\* <<onoff, work>> pair
SetUnackResult(o, w, buf, addr, g) ==
    LET f == SetFields(buf, g)
    IN IF Accepted(o, f, addr)
       THEN [onoff |-> SetStore(o, f, addr),
             work  |-> k_work_reschedule(w, f.delay)]
       ELSE [onoff |-> o, work |-> w]

(* ---------------------------- state ----------------------------------- *)
\* out: what the last handler emitted: messages handed to
\* bt_mesh_model_send, provisioning primitives called, lines printed and the
\* value returned by gen_onoff_send
NoOut == [tx |-> <<>>, calls |-> <<>>, log |-> <<>>, ret |-> 0]

\* ev: the last event: its kind, the sender address and, for a Set, the
\* value and transaction id bytes and whether it found the work item
\* pending, for a Status the payload
Ev(kind, addr, val, tid, buf) ==
    [kind |-> kind, addr |-> addr, val |-> val, tid |-> tid, buf |-> buf,
     busy |-> FALSE]

Plain(kind) == Ev(kind, 0, 0, 0, <<>>)

SetEv(kind, addr, buf, w) ==
    [Ev(kind, addr, buf[1], buf[2], <<>>) EXCEPT !.busy = w.pending]

\* printk of gen_onoff_set_unack, reached only by an accepted Set
SetLog(o, buf, addr, g) ==
    LET f == SetFields(buf, g)
    IN IF Accepted(o, f, addr)
       THEN <<[val |-> f.val, delay |-> f.delay, trans |-> f.trans]>>
       ELSE <<>>

ColdStart ==
    /\ provisioned = FALSE
    /\ keys = [m \in {2, 3} |-> BT_MESH_KEY_UNUSED]

WarmStart ==
    /\ provisioned = TRUE
    /\ keys = [m \in {2, 3} |-> 0]

Init ==
    /\ onoff = [val |-> FALSE, tid |-> 0, src |-> 0, transition_time |-> 0]
    /\ work = WorkIdle
    /\ led = FALSE
    /\ (ColdStart \/ WarmStart)
    /\ cli_tid = 0
    /\ ev = Plain("boot")
    /\ out = NoOut

(* ------------------------ server handlers ----------------------------- *)
\* Get handler that sends the reply twice
gen_onoff_get_Twice(addr) ==
    /\ ev' = Ev("get", addr, 0, 0, <<>>)
    /\ out' = [NoOut EXCEPT !.tx = <<onoff_status_send(onoff, work),
                                     onoff_status_send(onoff, work)>>]
    /\ UNCHANGED <<onoff, work, led, provisioned, keys, cli_tid>>

gen_onoff_get(addr) ==
    /\ ev' = Ev("get", addr, 0, 0, <<>>)
    /\ out' = [NoOut EXCEPT !.tx = <<onoff_status_send(onoff, work)>>]
    /\ UNCHANGED <<onoff, work, led, provisioned, keys, cli_tid>>

gen_onoff_set_unack(buf, addr, g) ==
    LET r == SetUnackResult(onoff, work, buf, addr, g)
    IN /\ onoff' = r.onoff
       /\ work' = r.work
       /\ ev' = SetEv("set_unack", addr, buf, work)
       /\ out' = [NoOut EXCEPT !.log = SetLog(onoff, buf, addr, g)]
       /\ UNCHANGED <<led, provisioned, keys, cli_tid>>

\* Set handler that replies only to an accepted Set
gen_onoff_set_SilentReject(buf, addr, g) ==
    LET r == SetUnackResult(onoff, work, buf, addr, g)
    IN /\ onoff' = r.onoff
       /\ work' = r.work
       /\ ev' = SetEv("set", addr, buf, work)
       /\ out' = [NoOut EXCEPT
                     !.tx = IF SetLog(onoff, buf, addr, g) = <<>> THEN <<>>
                            ELSE <<onoff_status_send(r.onoff, r.work)>>,
                     !.log = SetLog(onoff, buf, addr, g)]
       /\ UNCHANGED <<led, provisioned, keys, cli_tid>>

gen_onoff_set(buf, addr, g) ==
    LET r == SetUnackResult(onoff, work, buf, addr, g)
    IN /\ onoff' = r.onoff
       /\ work' = r.work
       /\ ev' = SetEv("set", addr, buf, work)
       /\ out' = [NoOut EXCEPT !.tx = <<onoff_status_send(r.onoff, r.work)>>,
                               !.log = SetLog(onoff, buf, addr, g)]
       /\ UNCHANGED <<led, provisioned, keys, cli_tid>>

(* --------------------------- timer ------------------------------------ *)
\* milliseconds left that the model distinguishes while time passes
RemainPoints == {0, 1}

Elapse ==
    /\ work.pending
    /\ work.remaining # 0
    /\ \E r \in RemainPoints :
          /\ ULess32(r, work.remaining)
          /\ work' = [work EXCEPT !.remaining = r]
    /\ ev' = Plain("elapse")
    /\ out' = NoOut
    /\ UNCHANGED <<onoff, led, provisioned, keys, cli_tid>>

\* the LED level written by the first phase of onoff_timeout
TransitionStartLed(o) == TRUE

\* timeout handler that forgets to clear the recorded transition time
onoff_timeout_NoClear ==
    /\ work.pending
    /\ work.remaining = 0
    /\ IF onoff.transition_time # 0
       THEN /\ led' = TransitionStartLed(onoff)
            /\ work' = k_work_reschedule(work, onoff.transition_time)
            /\ onoff' = onoff
       ELSE /\ led' = onoff.val
            /\ work' = WorkIdle
            /\ onoff' = onoff
    /\ ev' = Plain("timeout")
    /\ out' = NoOut
    /\ UNCHANGED <<provisioned, keys, cli_tid>>

onoff_timeout ==
    /\ work.pending
    /\ work.remaining = 0
    /\ IF onoff.transition_time # 0
       THEN /\ led' = TransitionStartLed(onoff)
            /\ work' = k_work_reschedule(work, onoff.transition_time)
            /\ onoff' = [onoff EXCEPT !.transition_time = 0]
       ELSE /\ led' = onoff.val
            /\ work' = WorkIdle
            /\ onoff' = onoff
    /\ ev' = Plain("timeout")
    /\ out' = NoOut
    /\ UNCHANGED <<provisioned, keys, cli_tid>>

(* ------------------------ health attention ---------------------------- *)
attention_on ==
    /\ led' = TRUE
    /\ ev' = Plain("attn_on")
    /\ out' = NoOut
    /\ UNCHANGED <<onoff, work, provisioned, keys, cli_tid>>

attention_off ==
    /\ led' = FALSE
    /\ ev' = Plain("attn_off")
    /\ out' = NoOut
    /\ UNCHANGED <<onoff, work, provisioned, keys, cli_tid>>

(* ------------------------ client handler ------------------------------ *)
NoGarbage == [i \in 2..5 |-> 0]

StatusPayloads == {<<1>>, <<0, 1, 1>>, <<1, 0, 63>>, <<0, 221, 93, 1, 1>>}

\* what a short Status payload may be followed by in memory
StatusGarbage == {NoGarbage, [i \in 2..5 |-> IF i = 5 THEN 63 ELSE 1]}

\* bytes gen_onoff_status consumes: present, le16 source, then target and
\* remaining time when buf->len (16 bit, wrapping) is still nonzero
StatusLenLeft(buf) == (Len(buf) - 3) % 65536

StatusReads(buf) == IF StatusLenLeft(buf) # 0 THEN 5 ELSE 3

StatusFields(buf, g) ==
    LET at(i) == IF i <= Len(buf) THEN buf[i] ELSE g[i]
    IN [present  |-> at(1),
        src_addr |-> at(2) + 256 * at(3),
        long     |-> StatusLenLeft(buf) # 0,
        target   |-> IF StatusLenLeft(buf) # 0 THEN at(4) ELSE 0,
        remaining_time |-> IF StatusLenLeft(buf) # 0
                           THEN model_time_decode(at(5)) ELSE 0,
        overread |-> StatusReads(buf) > Len(buf)]

\* ctx is not read by the handler
gen_onoff_status(buf, g) ==
    /\ ev' = Ev("status", 0, 0, 0, buf)
    /\ out' = [NoOut EXCEPT !.log = <<StatusFields(buf, g)>>]
    /\ UNCHANGED <<onoff, work, led, provisioned, keys, cli_tid>>

(* --------------------------- client send ------------------------------ *)
\* gen_onoff_send that builds the message before looking at the key
gen_onoff_send_TidFirst(k, t, val, src) ==
    IF k = BT_MESH_KEY_UNUSED
    THEN [tx |-> <<>>, ret |-> -ENOENT, tid |-> (t + 1) % 256]
    ELSE [tx |-> <<[op |-> "set_unack",
                    payload |-> <<b2i(val), t, src % 256, src \div 256>>]>>,
          ret |-> 0,
          tid |-> (t + 1) % 256]

\* gen_onoff_send with models[3].keys[0] = k and its static tid = t
gen_onoff_send(k, t, val, src) ==
    IF k = BT_MESH_KEY_UNUSED
    THEN [tx |-> <<>>, ret |-> -ENOENT, tid |-> t]
    ELSE [tx |-> <<[op |-> "set_unack",
                    payload |-> <<b2i(val), t, src % 256, src \div 256>>]>>,
          ret |-> 0,
          tid |-> (t + 1) % 256]

(* --------------------------- provisioning ----------------------------- *)
\* sys_get_le16(&dev_uuid[0]) & BIT_MASK(15)
UnicastAddr(id) == (id[1] + 256 * id[2]) % 32768

\* provisioning that binds the models before checking bt_mesh_app_key_add
ProvisionSequence_BindEarly(k, p_ok, a_ok) ==
    IF ~p_ok
    THEN [calls |-> <<"provision_err">>, provisioned |-> FALSE, keys |-> k]
    ELSE [calls |-> <<"provision_ok",
                      IF a_ok THEN "app_key_add_ok" ELSE "app_key_add_err">>,
          provisioned |-> TRUE, keys |-> [m \in {2, 3} |-> 0]]

\* the provisioning branch of button_pressed: p_ok / a_ok are the results
\* of bt_mesh_provision and bt_mesh_app_key_add
ProvisionSequence(k, p_ok, a_ok) ==
    IF ~p_ok
    THEN [calls |-> <<"provision_err">>, provisioned |-> FALSE, keys |-> k]
    ELSE IF ~a_ok
    THEN [calls |-> <<"provision_ok", "app_key_add_err">>,
          provisioned |-> TRUE, keys |-> k]
    ELSE [calls |-> <<"provision_ok", "app_key_add_ok">>,
          provisioned |-> TRUE, keys |-> [m \in {2, 3} |-> 0]]

\* button_pressed without the bt_mesh_is_provisioned() guard
SkipsProvisioning_Never(is_prov) == FALSE

\* whether button_pressed takes the send branch
SkipsProvisioning(is_prov) == is_prov

button_pressed(p_ok, a_ok) ==
    LET addr == UnicastAddr(DevUuid01)
    IN /\ ev' = Ev("button", addr, 0, 0, <<>>)
       /\ IF SkipsProvisioning(provisioned)
          THEN LET s == gen_onoff_send(keys[3], cli_tid, ~onoff.val, addr)
               IN /\ s.tid <= MaxCliTid
                  /\ out' = [NoOut EXCEPT !.tx = s.tx, !.ret = s.ret]
                  /\ cli_tid' = s.tid
                  /\ UNCHANGED <<provisioned, keys>>
          ELSE LET r == ProvisionSequence(keys, p_ok, a_ok)
               IN /\ out' = [NoOut EXCEPT !.calls = r.calls]
                  /\ provisioned' = r.provisioned
                  /\ keys' = r.keys
                  /\ UNCHANGED cli_tid
       /\ UNCHANGED <<onoff, work, led>>

(* ------------------------- specification ------------------------------ *)
RxGet == \E a \in SrcAddrs : gen_onoff_get(a)

\* a byte behind the payload is read only from a 3-byte Set
SetInputs ==
    {i \in SetPayloads \X SrcAddrs \X GarbageBytes : Len(i[1]) = 3 \/ i[3] = 0}

RxSet == \E i \in SetInputs : gen_onoff_set(i[1], i[2], i[3])

RxSetUnack == \E i \in SetInputs : gen_onoff_set_unack(i[1], i[2], i[3])

RxStatus ==
    \E buf \in StatusPayloads, g \in StatusGarbage :
        /\ (StatusReads(buf) <= Len(buf) => g = NoGarbage)
        /\ gen_onoff_status(buf, g)

Button == \E p_ok \in BOOLEAN, a_ok \in BOOLEAN : button_pressed(p_ok, a_ok)

Next ==
    \/ RxGet
    \/ RxSet
    \/ RxSetUnack
    \/ RxStatus
    \/ Elapse
    \/ onoff_timeout
    \/ attention_on
    \/ attention_off
    \/ Button

Spec == Init /\ [][Next]_vars

TypeOK ==
    /\ onoff.val \in BOOLEAN
    /\ onoff.tid \in 0..255
    /\ onoff.src \in 0..65535
    /\ onoff.transition_time \in Int
    /\ work.pending \in BOOLEAN
    /\ work.remaining \in Int
    /\ led \in BOOLEAN
    /\ provisioned \in BOOLEAN
    /\ cli_tid \in 0..255

(* ------------- timers that fire, transitions left alone --------------- *)
\* the last event was an accepted Set
SetAccepted(e, o) == e.kind \in {"set", "set_unack"} /\ o.log # <<>>

\* no Set is accepted while the work item of an earlier one is pending
NextUndisturbed == Next /\ (work.pending => ~SetAccepted(ev', out'))

\* time passes and the system work queue runs every due work item
FairSpec ==
    /\ Init
    /\ [][NextUndisturbed]_vars
    /\ WF_vars(Elapse)
    /\ WF_vars(onoff_timeout)

(* ------------- the node's own broadcast delivered to a server --------- *)
\* the Set-Unacknowledged just handed to bt_mesh_model_send reaches the
\* OnOff server of a node running this program (BT_MESH_ADDR_ALL_NODES
\* includes the sender's own element), with the sender's unicast address
\* as ctx->addr
DeliverSent ==
    /\ ev.kind = "button"
    /\ Len(out.tx) = 1
    /\ out.tx[1].op = "set_unack"
    /\ gen_onoff_set_unack(out.tx[1].payload, ev.addr, 0)

LoopNext == Next \/ DeliverSent

LoopSpec == Init /\ [][LoopNext]_vars

(* ------------------ the pure functions on their own ------------------- *)
\* durations a resolution expresses exactly within 62 steps
ExactDurations == {s * time_res[r] : s \in 0..62, r \in 1..4}

\* those, their neighbours, and the indefinite value
EncodeInputs ==
    {d + e : d \in ExactDurations, e \in {-1, 0, 1}} \ {-2}

\* identity bytes dev_uuid[0], dev_uuid[1]
IdentityInputs == {<<lo, hi>> : lo \in {0, 1, 127, 128, 221, 255}, hi \in 0..255}

\* k_uptime_get_32() values, as 32-bit words
UptimeInputs == {0, 1, 32767, 32768, 65536, 98305, 2147483647, -1, -32768}

\* k_uptime_get_32() & BIT_MASK(15)
UptimeAddr(t) == Lo16(t) % 32768

CalcInit ==
    /\ onoff = [val |-> FALSE, tid |-> 0, src |-> 0, transition_time |-> 0]
    /\ work = WorkIdle
    /\ led = FALSE
    /\ ColdStart
    /\ cli_tid = 0
    /\ out = NoOut
    /\ \/ \E ms \in EncodeInputs : ev = Ev("encode", 0, ms, 0, <<>>)
       \/ \E b \in 0..255 : ev = Ev("decode", 0, b, 0, <<>>)
       \/ \E id \in IdentityInputs : ev = Ev("identity", 0, 0, 0, id)
       \/ \E t \in UptimeInputs : ev = Ev("uptime", 0, t, 0, <<>>)

Result(r) ==
    /\ out = NoOut
    /\ out' = [NoOut EXCEPT !.log = <<r>>]
    /\ UNCHANGED <<onoff, work, led, provisioned, keys, cli_tid, ev>>

EncodeCall ==
    /\ ev.kind = "encode"
    /\ Result([byte |-> model_time_encode(ev.val),
               back |-> model_time_decode(model_time_encode(ev.val))])

DecodeCall ==
    /\ ev.kind = "decode"
    /\ Result([ms |-> model_time_decode(ev.val),
               again |-> model_time_encode(model_time_decode(ev.val))])

IdentityAddr ==
    /\ ev.kind = "identity"
    /\ Result([addr |-> UnicastAddr(ev.buf)])

UptimeCall ==
    /\ ev.kind = "uptime"
    /\ Result([addr |-> UptimeAddr(ev.val)])

CalcNext == EncodeCall \/ DecodeCall \/ IdentityAddr \/ UptimeCall

CalcSpec == CalcInit /\ [][CalcNext]_vars

(* ======================= properties =================================== *)
IsSetEv(e) == e.kind \in {"set", "set_unack"}

Engine == <<onoff, work, led>>

(* C1: an accepted Set with nonzero transition time arms the timer for   *)
(* its delay; the first firing drives the LED to the new value, re-arms  *)
(* the timer for exactly the transition time and clears the recorded     *)
(* time; the firing with no recorded time sets the LED to the value and  *)
(* leaves no timer pending.                                              *)
C1_TwoPhaseSchedule ==
    [][/\ (IsSetEv(ev') /\ out'.log # <<>> /\ out'.log[1].trans # 0)
            => work' = [pending |-> TRUE, remaining |-> out'.log[1].delay]
       /\ (ev'.kind = "timeout" /\ onoff.transition_time # 0)
            => /\ led' = onoff.val
               /\ work' = [pending |-> TRUE,
                           remaining |-> onoff.transition_time]
               /\ onoff' = [onoff EXCEPT !.transition_time = 0]
       /\ (ev'.kind = "timeout" /\ onoff.transition_time = 0)
            => /\ led' = onoff.val
               /\ work' = WorkIdle
               /\ onoff' = onoff]_vars

(* C2: a Set or Set-Unacknowledged whose transaction id and sender equal *)
(* the last accepted ones changes neither value, transaction id, source, *)
(* transition time, timer nor LED, whatever else it carries.             *)
C2_RetransmissionChangesNothing ==
    [][(IsSetEv(ev') /\ ev'.tid = onoff.tid /\ ev'.addr = onoff.src)
          => (UNCHANGED Engine /\ out'.log = <<>>)]_vars

\* a retransmission asking for the other value was handled and dropped
C2_Witness ==
    /\ IsSetEv(ev)
    /\ ev.tid = onoff.tid
    /\ ev.addr = onoff.src
    /\ ev.val = b2i(~onoff.val)
    /\ out.log = <<>>

(* C3: a Set or Set-Unacknowledged asking for the current value changes  *)
(* nothing and arms no timer, also with a new transaction id or source.  *)
C3_SameValueChangesNothing ==
    [][(IsSetEv(ev') /\ ev'.val = b2i(onoff.val))
          => (UNCHANGED Engine /\ out'.log = <<>>)]_vars

\* a Set for the current value from a new transaction was handled while
\* no timer is armed
C3_Witness ==
    /\ IsSetEv(ev)
    /\ ev.val = b2i(onoff.val)
    /\ (ev.tid # onoff.tid /\ ev.addr # onoff.src)
    /\ ~work.pending
    /\ out.log = <<>>

(* C4: a Set passing both checks while the timer is pending replaces the *)
(* schedule: the timer is armed for the new delay only, and value,       *)
(* transition time, transaction id and source are the new Set's.         *)
C4_AcceptedSetReplacesSchedule ==
    [][(/\ IsSetEv(ev')
        /\ work.pending
        /\ ~(ev'.tid = onoff.tid /\ ev'.addr = onoff.src)
        /\ ev'.val # b2i(onoff.val))
          => /\ out'.log # <<>>
             /\ work' = [pending |-> TRUE, remaining |-> out'.log[1].delay]
             /\ onoff' = [val |-> ev'.val # 0, tid |-> ev'.tid,
                          src |-> ev'.addr,
                          transition_time |-> out'.log[1].trans]]_vars

\* a Set was accepted while the timer was pending and its own delay is
\* now the one armed
C4_Witness ==
    /\ IsSetEv(ev)
    /\ ev.busy
    /\ out.log # <<>>
    /\ out.log[1].delay = 5
    /\ work = [pending |-> TRUE, remaining |-> 5]

(* C5: a timer is pending iff a transition is outstanding, and whenever  *)
(* none is outstanding the LED equals the stored value.                  *)
Outstanding == onoff.transition_time # 0 \/ work.pending

C5_OutputFollowsValue ==
    /\ work.pending <=> Outstanding
    /\ ~Outstanding => led = onoff.val

(* C6: every Status reply is 1 byte when no transition is outstanding    *)
(* and 3 bytes when one is (transition time recorded, or the timer armed *)
(* with time left on it).                                                *)
InTransition ==
    onoff.transition_time # 0 \/ (work.pending /\ work.remaining # 0)

C6_StatusShape ==
    \A i \in 1..Len(out.tx) :
        out.tx[i].op = "status"
            => Len(out.tx[i].payload) = IF InTransition THEN 3 ELSE 1

(* C7: after a failed provisioning step the node is unprovisioned with   *)
(* no model bound, and a provisioned node with unbound OnOff models is   *)
(* never observable.                                                     *)
StepFailed(calls) ==
    \E i \in 1..Len(calls) : calls[i] \in {"provision_err", "app_key_add_err"}

Unbound == keys[2] = BT_MESH_KEY_UNUSED /\ keys[3] = BT_MESH_KEY_UNUSED

Bound == keys[2] = 0 /\ keys[3] = 0

C7_FailedStepLeavesUnprovisioned ==
    /\ StepFailed(out.calls) => (~provisioned /\ Unbound)
    /\ provisioned => Bound

(* C8: the key-index slots of both OnOff models change only in a button  *)
(* press whose provision and application-key-add both succeeded, in that *)
(* order; after a failed step both are still the unused sentinel.        *)
C8_BindOnlyAfterBothSteps ==
    [][/\ keys' # keys
            => /\ out'.calls = <<"provision_ok", "app_key_add_ok">>
               /\ keys' = [m \in {2, 3} |-> 0]
       /\ StepFailed(out'.calls)
            => /\ keys' = keys
               /\ keys'[2] = BT_MESH_KEY_UNUSED
               /\ keys'[3] = BT_MESH_KEY_UNUSED]_vars

\* the application-key add failed after a successful provision and both
\* models are still unbound
C8_Witness ==
    /\ ev.kind = "button"
    /\ out.calls = <<"provision_ok", "app_key_add_err">>
    /\ Unbound

(* C9: in a provisioned node no step calls the provision or the          *)
(* application-key-add primitive or writes a key binding, and the node   *)
(* stays provisioned.                                                    *)
C9_NoReprovisioning ==
    [][provisioned => (out'.calls = <<>> /\ keys' = keys /\ provisioned')]_vars

\* a button press on a provisioned node sent a message instead
C9_Witness ==
    /\ ev.kind = "button"
    /\ provisioned
    /\ out.calls = <<>>
    /\ Len(out.tx) = 1

(* C10: the client send with an unbound client model returns -ENOENT,    *)
(* sends nothing and leaves the transaction id counter alone.            *)
C10_UnboundSendFails ==
    [][(ev'.kind = "button" /\ provisioned
            /\ keys[3] = BT_MESH_KEY_UNUSED)
          => /\ out'.ret = -ENOENT
             /\ out'.tx = <<>>
             /\ cli_tid' = cli_tid]_vars

\* a button press on a provisioned node with an unbound client model
\* returned the failure
C10_Witness ==
    /\ ev.kind = "button"
    /\ provisioned
    /\ keys[3] = BT_MESH_KEY_UNUSED
    /\ out.ret = -ENOENT
    /\ out.tx = <<>>

Done(kind) == ev.kind = kind /\ out.log # <<>>

(* C11: a duration of s steps of one of the four resolutions, s in       *)
(* 0..62, decodes from its encoding to itself.                           *)
C11_RoundTrip ==
    (Done("encode") /\ ev.val \in ExactDurations) => out.log[1].back = ev.val

\* 62 steps of 10 minutes went through the codec unchanged
C11_Witness ==
    /\ Done("encode")
    /\ ev.val = 62 * 600000
    /\ out.log[1].byte = 192 + 62
    /\ out.log[1].back = 37200000

(* C12: for every duration d in 0 .. 62 * 600000 the encoder takes the   *)
(* smallest resolution r with ceil(d / r) <= 62 and emits ceil(d / r)    *)
(* steps: the step field is never 63 and the byte decodes to a finite    *)
(* duration >= d.                                                        *)
CeilDiv(d, r) == (d + r - 1) \div r

SmallestResolution(d) ==
    CHOOSE i \in 1..4 :
        /\ CeilDiv(d, time_res[i]) <= 62
        /\ \A j \in 1..(i - 1) : CeilDiv(d, time_res[j]) > 62

C12_EncodeWithin62Steps ==
    (Done("encode") /\ ev.val \in 0..(62 * 600000))
        => /\ out.log[1].byte % 64 # 63
           /\ out.log[1].byte =
                 CeilDiv(ev.val, time_res[SmallestResolution(ev.val)])
                    + 64 * (SmallestResolution(ev.val) - 1)
           /\ out.log[1].back # SYS_FOREVER_MS
           /\ out.log[1].back >= ev.val

(* C13: the indefinite duration encodes to 0x3F, every byte whose step   *)
(* field is 63 decodes to the indefinite duration and every other byte   *)
(* to a finite one.                                                      *)
C13_IndefiniteSentinel ==
    /\ (Done("encode") /\ ev.val = SYS_FOREVER_MS) => out.log[1].byte = 63
    /\ (Done("decode") /\ ev.val % 64 = 63) => out.log[1].ms = SYS_FOREVER_MS
    /\ (Done("decode") /\ ev.val % 64 # 63)
          => (out.log[1].ms # SYS_FOREVER_MS /\ out.log[1].ms >= 0)

\* the byte with step field 63 and the 1 s resolution was decoded
C13_Witness ==
    /\ Done("decode")
    /\ ev.val = 64 + 63
    /\ out.log[1].ms = SYS_FOREVER_MS

(* C19: the address handed to the provisioning primitive is the low 15   *)
(* bits of the little-endian identity value (of the uptime in the        *)
(* fallback) and is a valid unicast address, 0x0001 .. 0x7FFF.           *)
C19_ValidUnicastAddress ==
    /\ Done("identity")
          => /\ out.log[1].addr = (ev.buf[1] + 256 * ev.buf[2]) % 32768
             /\ out.log[1].addr \in 1..32767
    /\ Done("uptime")
          => /\ out.log[1].addr = ev.val % 32768
             /\ out.log[1].addr \in 1..32767

(* C14: a Set or Set-Unacknowledged rejected as a retransmission or as   *)
(* asking for the current value is dropped silently: no Status reply is  *)
(* sent for it.                                                          *)
C14_RejectedSetGetsNoReply ==
    (IsSetEv(ev) /\ out.log = <<>>) => out.tx = <<>>

(* C14 as amended: a rejected Set-Unacknowledged gets no reply; a        *)
(* rejected acknowledged Set changes nothing and is answered with        *)
(* exactly one Status.                                                   *)
C14_RejectedSetReply ==
    [][(/\ IsSetEv(ev')
        /\ \/ (ev'.tid = onoff.tid /\ ev'.addr = onoff.src)
           \/ ev'.val = b2i(onoff.val))
          => /\ UNCHANGED Engine
             /\ ev'.kind = "set_unack" => out'.tx = <<>>
             /\ ev'.kind = "set"
                   => /\ Len(out'.tx) = 1
                      /\ out'.tx[1].op = "status"]_vars

\* a retransmitted acknowledged Set was answered while the timer of the
\* first one was still pending
C14_Witness ==
    /\ ev.kind = "set"
    /\ ev.tid = onoff.tid
    /\ ev.addr = onoff.src
    /\ out.log = <<>>
    /\ Len(out.tx) = 1
    /\ work.pending

(* C15: the remaining time in a Status reply is the exact sum of the     *)
(* time left on the timer and the transition time not yet started; with  *)
(* the indefinite transition time recorded the reply has 3 bytes and     *)
(* reports the indefinite remaining time.                                *)
C15_ExactRemainingTime ==
    \A i \in 1..Len(out.tx) :
        out.tx[i].op = "status"
            => LET p == out.tx[i].payload
               IN IF onoff.transition_time = SYS_FOREVER_MS
                     \/ work.remaining = SYS_FOREVER_MS
                  THEN Len(p) = 3 /\ p[3] = 63
                  ELSE IF work.remaining + onoff.transition_time = 0
                  THEN Len(p) = 1
                  ELSE /\ Len(p) = 3
                       /\ p[3] = model_time_encode(
                                    work.remaining + onoff.transition_time)

(* C17: for a Status payload as the server builds it, 1 byte <<present>> *)
(* or 3 bytes <<present, target, remaining>>, the client decodes that    *)
(* present value and, for 3 bytes, that target and the decoded remaining *)
(* time, reading nothing behind the payload.                             *)
ServerShaped(buf) ==
    \/ Len(buf) = 1 /\ buf[1] \in {0, 1}
    \/ Len(buf) = 3 /\ buf[1] \in {0, 1} /\ buf[2] = 1 - buf[1]

C17_ClientDecodesServerStatus ==
    (Done("status") /\ ServerShaped(ev.buf))
        => /\ out.log[1].present = ev.buf[1]
           /\ ~out.log[1].overread
           /\ out.log[1].long = (Len(ev.buf) = 3)
           /\ Len(ev.buf) = 3
                 => /\ out.log[1].target = ev.buf[2]
                    /\ out.log[1].remaining_time = model_time_decode(ev.buf[3])

(* C20: handling a Get or a received Status changes neither value,       *)
(* transaction id, source, transition time, timer, LED nor key bindings; *)
(* a Get emits exactly one Status reply, a Status none.                  *)
C20_GetAndStatusReadOnly ==
    [][ev'.kind \in {"get", "status"}
          => /\ UNCHANGED <<onoff, work, led, provisioned, keys, cli_tid>>
             /\ ev'.kind = "get"
                   => /\ Len(out'.tx) = 1
                      /\ out'.tx[1].op = "status"
             /\ ev'.kind = "status" => out'.tx = <<>>]_vars

\* a Get was answered with the 3-byte shape during a transition
C20_Witness ==
    /\ ev.kind = "get"
    /\ work.pending
    /\ onoff.transition_time # 0
    /\ Len(out.tx) = 1
    /\ Len(out.tx[1].payload) = 3

(* C16: with timers firing and no further Set accepted meanwhile, every  *)
(* accepted Set with a finite transition time leads to the idle state    *)
(* of its value: no timer pending, no transition time recorded, LED and  *)
(* stored value equal to the requested value; a firing either clears the *)
(* recorded transition time or leaves no timer pending, so two firings   *)
(* are enough.                                                           *)
IdleAt(v) ==
    /\ ~work.pending
    /\ onoff.transition_time = 0
    /\ led = onoff.val
    /\ b2i(onoff.val) = v

C16_AcceptedSetSettles ==
    /\ [][ev'.kind = "timeout"
            => IF onoff.transition_time # 0
               THEN onoff'.transition_time = 0
               ELSE ~work'.pending]_vars
    /\ \A v \in {0, 1} :
          (/\ SetAccepted(ev, out)
           /\ out.log[1].trans # SYS_FOREVER_MS
           /\ out.log[1].val = v) ~> (ev.kind = "timeout" /\ IdleAt(v))

\* the second firing of a transition to on left the engine idle and on
C16_Witness ==
    /\ ev.kind = "timeout"
    /\ IdleAt(1)

(* C18: the Set-Unacknowledged built by gen_onoff_send, handled by       *)
(* gen_onoff_set_unack, is an immediate Set of the value sent: delay 0   *)
(* and transition time 0, the appended address bytes not being taken     *)
(* for the transition-time and delay fields.                             *)
C18_OwnSetIsImmediate ==
    (ev.kind = "set_unack" /\ ev.addr = UnicastAddr(DevUuid01)
        /\ out.log # <<>>)
        => /\ out.log[1].val = ev.val
           /\ out.log[1].delay = 0
           /\ out.log[1].trans = 0
           /\ onoff.transition_time = 0
           /\ work = [pending |-> TRUE, remaining |-> 0]

====
